---- MODULE Spec2Model ----
(***************************************************************************)
(* benchy: a CSV of (hostname, start_time, end_time) records is replayed   *)
(* through a pool of workers.  main (cmd/benchy.go) wires StartWorkers,    *)
(* the error-logging goroutine, CollectResult and ProcessCsv together with *)
(* unbuffered channels.  A send on an unbuffered channel is modelled as a  *)
(* rendezvous: one action moves the sender past its send and the receiver  *)
(* past its receive.                                                       *)
(*                                                                         *)
(* Worker indices are 0-based as in the Go code.  A host name is an        *)
(* integer 1..MaxHosts, 0 is the empty string.  A timestamp field is 1     *)
(* when time.Parse accepts it and 0 when it does not.  A duration is a     *)
(* whole number of milliseconds (elapsed.Milliseconds()).                  *)
(***************************************************************************)
EXTENDS Integers, Sequences, FiniteSets, TLC

\* ---------------------------------------------------------------- bounds
MaxWorkers == 2
MaxRecords == 3
MaxHosts == 2
MaxDuration == 1
MaxFeed == 5
MaxSamples == 3

\* ------------------------------------------------------------- constants
lineLength == 3
maxPercentile == 100
minPercentile == 0
minPercentileDataLen == 2

expectedHeaderStr == "hostname,start_time,end_time"

\* error values
NoErr == "nil"
ErrInvalidLineLen == "invalid line length, must be equal to 3"
ErrEmptyHostname == "empty host name"
ErrInvalidHeader == "invalid header"
ErrInvalidStart == "invalid start time value"
ErrInvalidEnd == "invalid end time value"
ErrFieldCount == "record on line: wrong number of fields"
ErrReadHeader == "could not read header"
ErrQuery == "could not execute query"

\* --------------------------------------------------------------- inputs
Hosts == 1..MaxHosts

Durations == {10 * k : k \in 1..MaxDuration}

\* what one call of work(q) can do: return nil after any of the durations,
\* or return an error
Outcomes ==
  { [err |-> NoErr, elapsed |-> d] : d \in Durations }
    \cup { [err |-> ErrQuery, elapsed |-> 10] }

\* the first line of the input; <<>> is an empty input
Headers ==
  { <<"hostname", "start_time", "end_time">>,
    <<"hostname,start_time,end_time">>,
    <<"invalid", "header", "value">>,
    <<>> }

\* the data records the reader can meet
Records ==
  { <<h, 1, 1>> : h \in Hosts }
    \cup { <<0, 1, 1>>, <<1, 0, 1>>, <<1, 1, 0>>, <<1, 1>> }

RECURSIVE SeqsUpTo(_, _)
SeqsUpTo(S, n) ==
  IF n = 0 THEN { << >> }
  ELSE LET shorter == SeqsUpTo(S, n - 1)
       IN shorter \cup { Append(t, x) : t \in { u \in shorter : Len(u) = n - 1 }, x \in S }

\* the QueryResults TestCollectResult feeds: three durations without error,
\* and a failed one
TestResults ==
  { [Host |-> 1, Duration |-> d, Error |-> NoErr, line |-> 0] : d \in {10, 20, 30} }
    \cup { [Host |-> 1, Duration |-> 0, Error |-> "test error", line |-> 0] }

\* the samples and the p values percentile is called with
Samples == {10, 20, 30}
PercentileArgs == {-1, 0, 50, 95, 99, 100, 101}

\* ------------------------------------------------------------- float64
\* A float64 is a reduced fraction, or one of NaN, +Inf, -Inf.
RECURSIVE Gcd(_, _)
Gcd(a, b) == IF b = 0 THEN a ELSE Gcd(b, a % b)

Abs(a) == IF a < 0 THEN -a ELSE a

Frac(n, d) ==
  LET g == Gcd(Abs(n), d)
  IN [kind |-> "fin", num |-> n \div g, den |-> d \div g]

Fin(n) == Frac(n, 1)
NaN == [kind |-> "NaN", num |-> 0, den |-> 1]
PosInf == [kind |-> "+Inf", num |-> 0, den |-> 1]
NegInf == [kind |-> "-Inf", num |-> 0, den |-> 1]

\* a <= b on float64 (false when either is NaN)
FloatLeq(a, b) ==
  CASE a.kind = "NaN" \/ b.kind = "NaN" -> FALSE
    [] a.kind = "-Inf" \/ b.kind = "+Inf" -> TRUE
    [] a.kind = "+Inf" \/ b.kind = "-Inf" -> FALSE
    [] OTHER -> a.num * b.den <= b.num * a.den

\* faulty variant: the running minimum is overwritten by the newest duration
MathMinLast(a, b) == b

MathMin(a, b) == IF FloatLeq(a, b) THEN a ELSE b
MathMax(a, b) == IF FloatLeq(a, b) THEN b ELSE a

\* faulty variant: the mean of no samples is reported as 0
FloatDivGuarded(s, n) == IF n = 0 THEN Fin(0) ELSE Frac(s, n)

\* sum / float64(execCount): 0/0 is NaN
FloatDiv(s, n) == IF n = 0 THEN NaN ELSE Frac(s, n)

\* ------------------------------------------------------------ percentile
\* faulty variant: the check on the number of samples is missing
percentileNoLenCheck(data, p) ==
  IF p < minPercentile THEN NaN
  ELSE IF p > maxPercentile THEN NaN
  ELSE LET n == Len(data)
           rank100 == p * (n - 1) + 100
           ri == rank100 \div 100
           rf100 == rank100 - 100 * ri
           i == ri - 1
       IN IF i < 0 \/ i + 1 > n - 1
          THEN [kind |-> "panic", num |-> 0, den |-> 1]
          ELSE Frac(100 * data[i + 1] + rf100 * (data[i + 2] - data[i + 1]), 100)

\* rank = (p/100)*(n-1) + 1, ri = trunc(rank), rf = rank - ri, i = ri - 1.
\* data is 0-indexed in the code; data[i] is dataSeq[i + 1] here.
\* A read past the end of the slice is the runtime panic "index out of range".
percentile(data, p) ==
  IF p < minPercentile THEN NaN
  ELSE IF p > maxPercentile THEN NaN
  ELSE LET n == Len(data) IN
    IF n < minPercentileDataLen THEN NaN
    ELSE LET rank100 == p * (n - 1) + 100
             ri == rank100 \div 100
             rf100 == rank100 - 100 * ri
             i == ri - 1
         IN IF i + 1 > n - 1
            THEN [kind |-> "panic", num |-> 0, den |-> 1]
            ELSE Frac(100 * data[i + 1] + rf100 * (data[i + 2] - data[i + 1]), 100)

\* sort.Float64s
\* faulty variant: the durations are left in arrival order
SortFloat64sNone(s) == s

SortFloat64s(s) == SortSeq(s, LAMBDA a, b : a < b)

\* ------------------------------------------------------------- parsing
\* csv.Reader.Read with FieldsPerRecord = 0: every record must have as many
\* fields as the first one.
csvRead(line, fieldsPerRecord) ==
  IF Len(line) # fieldsPerRecord THEN ErrFieldCount ELSE NoErr

\* faulty variant: the end timestamp is not checked
parseLineNoEndCheck(line) ==
  IF Len(line) # lineLength THEN ErrInvalidLineLen
  ELSE IF line[1] = 0 THEN ErrEmptyHostname
  ELSE IF line[2] # 1 THEN ErrInvalidStart
  ELSE NoErr

parseLine(line) ==
  IF Len(line) # lineLength THEN ErrInvalidLineLen
  ELSE IF line[1] = 0 THEN ErrEmptyHostname
  ELSE IF line[2] # 1 THEN ErrInvalidStart
  ELSE IF line[3] # 1 THEN ErrInvalidEnd
  ELSE NoErr

RECURSIVE Join(_, _)
Join(line, sep) ==
  IF Len(line) = 0 THEN ""
  ELSE IF Len(line) = 1 THEN line[1]
  ELSE line[1] \o sep \o Join(Tail(line), sep)

validateHeader(line) ==
  IF Join(line, ",") = expectedHeaderStr THEN NoErr ELSE ErrInvalidHeader

\* the error the callback of ParseCsv gets for a data record
RecordErr(line, fieldsPerRecord) ==
  IF csvRead(line, fieldsPerRecord) # NoErr THEN csvRead(line, fieldsPerRecord)
  ELSE parseLine(line)

\* ---------------------------------------------------------------- state
VARIABLES
  header,         \* the first line of the CSV input
  records,        \* the data records csvReader.Read has returned so far
  workerCount,    \* config.WorkerCount
  mainPc,         \* position of the main goroutine
  fieldsPerRecord,\* csv.Reader's field count, fixed by the header
  hostWorkerMap,  \* ProcessCsv: host -> worker index
  workerIndex,    \* ProcessCsv: next worker for a new host
  parseFailure,   \* ProcessCsv: parse failure counter
  cur,            \* the callback's pending send: error or task and target
  retErr,         \* the error ProcessCsv returned
  closeIdx,       \* main: next worker channel to close
  chClosed,       \* per worker channel: number of close() calls
  queueLog,       \* per worker channel: tasks transferred, in order
  wpc,            \* per worker: position
  wq,             \* per worker: the task q of the current iteration
  wres,           \* per worker: the QueryResult being published
  executed,       \* per worker: the calls of work(): task and returned error, in order
  wg,             \* workerWg counter
  closerPc,       \* position of the goroutine that closes result
  resultClosed,   \* number of close(result) calls
  resultLog,      \* QueryResults transferred over result, in order
  aggPc,          \* position of CollectResult
  aggR,           \* CollectResult: the r of the current iteration
  durations, execCount, sqlFailure, min, max, sum,
  statLog,        \* Stats values transferred over statCh, in order
  errClosed,      \* number of close(errCh) calls
  errLog,         \* errors transferred over errCh, in order
  loggerPc,       \* position of the error-logging goroutine
  output,         \* what main printed: FormatStat's counters
  panicMsg,       \* runtime panic that crashed the process, "" if none
  feed,           \* TestCollectResult: the results still to be sent on resCh
  pctData,        \* the slice a caller passes to percentile
  pctP,           \* the p a caller passes to percentile
  pctRes          \* the values percentile returned to that caller, in order

\* what no goroutine of the pipeline writes
testVars == <<feed, pctData, pctP, pctRes>>
inputVars == <<header, workerCount, testVars>>
dispVars == <<fieldsPerRecord, records, hostWorkerMap, workerIndex, parseFailure, cur, retErr>>
queueVars == <<chClosed, queueLog>>
workerVars == <<wpc, wq, wres, executed, wg>>
closerVars == <<closerPc, resultClosed>>
aggVars == <<aggPc, aggR, durations, execCount, sqlFailure, min, max, sum>>
errVars == <<errClosed, errLog, loggerPc>>

vars == <<inputVars, mainPc, dispVars, closeIdx, queueVars, workerVars, closerVars,
          resultLog, aggVars, statLog, errVars, output, panicMsg>>

Workers == 0..(workerCount - 1)

NoTask == [Host |-> 0, line |-> 0]
NoResult == [Host |-> 0, Duration |-> 0, Error |-> NoErr, line |-> 0]
NoCur == [err |-> NoErr, Host |-> 0, line |-> 0, w |-> 0]
NoOutput == [printed |-> FALSE, total |-> 0, exec |-> 0, sqlFailure |-> 0, parseFailure |-> 0]

\* the process is alive: main has not returned, exited or crashed
Running == mainPc \notin {"done", "fatal"} /\ panicMsg = ""

Init ==
  /\ header \in Headers
  /\ workerCount \in 0..MaxWorkers
  /\ mainPc = "start"
  /\ fieldsPerRecord = 0
  /\ records = << >>
  /\ hostWorkerMap = << >>
  /\ workerIndex = 0
  /\ parseFailure = 0
  /\ cur = NoCur
  /\ retErr = NoErr
  /\ closeIdx = 0
  /\ chClosed = << >>
  /\ queueLog = << >>
  /\ wpc = << >>
  /\ wq = << >>
  /\ wres = << >>
  /\ executed = << >>
  /\ wg = 0
  /\ closerPc = "none"
  /\ resultClosed = 0
  /\ resultLog = << >>
  /\ aggPc = "none"
  /\ aggR = NoResult
  /\ durations = << >>
  /\ execCount = 0
  /\ sqlFailure = 0
  /\ min = PosInf
  /\ max = NegInf
  /\ sum = 0
  /\ statLog = << >>
  /\ errClosed = 0
  /\ errLog = << >>
  /\ loggerPc = "none"
  /\ output = NoOutput
  /\ panicMsg = ""
  /\ feed = << >>
  /\ pctData = << >>
  /\ pctP = 0
  /\ pctRes = << >>

\* ------------------------------------------------------------------ main
\* StartWorkers, then main starts the logger and CollectResult goroutines.
\* Every goroutine is left at its first blocking point.
StartWorkers ==
  /\ Running /\ mainPc = "start"
  /\ chClosed' = [w \in Workers |-> 0]
  /\ queueLog' = [w \in Workers |-> << >>]
  /\ wpc' = [w \in Workers |-> "recv"]
  /\ wq' = [w \in Workers |-> NoTask]
  /\ wres' = [w \in Workers |-> NoResult]
  /\ executed' = [w \in Workers |-> << >>]
  /\ wg' = workerCount
  /\ closerPc' = "wait"
  /\ loggerPc' = "recv"
  /\ aggPc' = "recv"
  /\ mainPc' = "header"
  /\ UNCHANGED <<inputVars, dispVars, closeIdx, resultClosed, resultLog, aggR, durations,
                 execCount, sqlFailure, min, max, sum, statLog, errClosed, errLog,
                 output, panicMsg>>

\* ParseCsv: read and validate the header.  An error here is returned by
\* ProcessCsv and main ends the process with errLogger.Fatalln.
ReadHeader ==
  /\ Running /\ mainPc = "header"
  /\ IF Len(header) = 0
     THEN /\ retErr' = ErrReadHeader
          /\ mainPc' = "fatal"
          /\ UNCHANGED fieldsPerRecord
     ELSE IF validateHeader(header) # NoErr
     THEN /\ retErr' = validateHeader(header)
          /\ mainPc' = "fatal"
          /\ UNCHANGED fieldsPerRecord
     ELSE /\ fieldsPerRecord' = Len(header)
          /\ mainPc' = "read"
          /\ UNCHANGED retErr
  /\ UNCHANGED <<inputVars, records, hostWorkerMap, workerIndex, parseFailure, cur, closeIdx,
                 queueVars, workerVars, closerVars, resultLog, aggVars, statLog, errVars,
                 output, panicMsg>>

\* faulty variant: the remembered index is ignored
LookupWorkerNoMap(map, host, idx) == idx

\* w, ok := hostWorkerMap[host]; if !ok { w = workerIndex }
LookupWorker(map, host, idx) == IF host \in DOMAIN map THEN map[host] ELSE idx

\* faulty variant: workerIndex is never advanced
NextWorkerIndexStuck(idx, n) == idx

\* workerIndex = (workerIndex + 1) % len(workerChs), for n >= 1
NextWorkerIndex(idx, n) == (idx + 1) % n

\* faulty variant: the map entry of a host is rewritten at every sighting
ReadLineRemap(line) ==
  LET err == RecordErr(line, fieldsPerRecord)
      lineNo == Len(records) + 1
      host == line[1]
      w == workerIndex
  IN /\ records' = Append(records, line)
     /\ IF err # NoErr
        THEN /\ cur' = [err |-> err, Host |-> 0, line |-> lineNo, w |-> 0]
             /\ mainPc' = "sendErr"
             /\ UNCHANGED <<hostWorkerMap, workerIndex, panicMsg>>
        ELSE /\ hostWorkerMap' = (host :> w) @@ hostWorkerMap
             /\ IF workerCount = 0
                THEN /\ panicMsg' = "integer divide by zero"
                     /\ UNCHANGED <<workerIndex, cur, mainPc>>
                ELSE /\ workerIndex' = NextWorkerIndex(workerIndex, workerCount)
                     /\ cur' = [err |-> NoErr, Host |-> host, line |-> lineNo, w |-> w]
                     /\ mainPc' = "sendTask"
                     /\ UNCHANGED panicMsg

\* ParseCsv and the callback of ProcessCsv for one data record, up to the
\* callback's channel send
ReadLine(line) ==
  LET err == RecordErr(line, fieldsPerRecord)
      lineNo == Len(records) + 1
      host == line[1]
      w == LookupWorker(hostWorkerMap, host, workerIndex)
  IN /\ records' = Append(records, line)
     /\ IF err # NoErr
        THEN /\ cur' = [err |-> err, Host |-> 0, line |-> lineNo, w |-> 0]
             /\ mainPc' = "sendErr"
             /\ UNCHANGED <<hostWorkerMap, workerIndex, panicMsg>>
        ELSE IF host \in DOMAIN hostWorkerMap
        THEN /\ cur' = [err |-> NoErr, Host |-> host, line |-> lineNo, w |-> w]
             /\ mainPc' = "sendTask"
             /\ UNCHANGED <<hostWorkerMap, workerIndex, panicMsg>>
        ELSE /\ hostWorkerMap' = (host :> w) @@ hostWorkerMap
             /\ IF workerCount = 0
                THEN /\ panicMsg' = "integer divide by zero"
                     /\ UNCHANGED <<workerIndex, cur, mainPc>>
                ELSE /\ workerIndex' = NextWorkerIndex(workerIndex, workerCount)
                     /\ cur' = [err |-> NoErr, Host |-> host, line |-> lineNo, w |-> w]
                     /\ mainPc' = "sendTask"
                     /\ UNCHANGED panicMsg

\* ParseCsv: one iteration of the read loop.  csvReader.Read returns the next
\* data record, or io.EOF: then ProcessCsv returns (parseFailure, nil) and
\* main goes on to close the worker channels.
ReadRecord ==
  /\ Running /\ mainPc = "read"
  /\ \/ /\ mainPc' = "close"
        /\ UNCHANGED <<records, hostWorkerMap, workerIndex, cur, panicMsg>>
     \/ /\ Len(records) < MaxRecords
        /\ \E line \in Records : ReadLine(line)
  /\ UNCHANGED <<inputVars, fieldsPerRecord, parseFailure, retErr, closeIdx, queueVars,
                 workerVars, closerVars, resultLog, aggVars, statLog, errVars, output>>

\* ProcessCsv callback: errCh <- err; parseFailure++   (received by the logger)
SendParseErr ==
  /\ Running /\ mainPc = "sendErr"
  /\ IF errClosed > 0
     THEN /\ panicMsg' = "send on closed channel"
          /\ UNCHANGED <<errLog, parseFailure, cur, mainPc>>
     ELSE /\ loggerPc = "recv"
          /\ errLog' = Append(errLog, [src |-> "parse", err |-> cur.err, line |-> cur.line])
          /\ parseFailure' = parseFailure + 1
          /\ cur' = NoCur
          /\ mainPc' = "read"
          /\ UNCHANGED panicMsg
  /\ UNCHANGED <<inputVars, fieldsPerRecord, records, hostWorkerMap, workerIndex, retErr,
                 closeIdx, queueVars, workerVars, closerVars, resultLog, aggVars, statLog,
                 errClosed, loggerPc, output>>

\* faulty variant: the worker channels are buffered, so the send completes
\* although the worker is busy; the task waits in the buffer
SendTaskBuffered ==
  /\ Running /\ mainPc = "sendTask"
  /\ chClosed[cur.w] = 0
  /\ queueLog' = [queueLog EXCEPT ![cur.w] = Append(@, [Host |-> cur.Host, line |-> cur.line])]
  /\ IF wpc[cur.w] = "recv"
     THEN /\ wq' = [wq EXCEPT ![cur.w] = [Host |-> cur.Host, line |-> cur.line]]
          /\ wpc' = [wpc EXCEPT ![cur.w] = "work"]
     ELSE UNCHANGED <<wq, wpc>>
  /\ cur' = NoCur
  /\ mainPc' = "read"
  /\ UNCHANGED <<inputVars, fieldsPerRecord, records, hostWorkerMap, workerIndex, parseFailure,
                 retErr, closeIdx, chClosed, wres, executed, wg, closerVars, resultLog,
                 aggVars, statLog, errVars, output, panicMsg>>

\* ProcessCsv callback: ch <- QueryParams{...}   (received by worker cur.w)
SendTask ==
  /\ Running /\ mainPc = "sendTask"
  /\ IF chClosed[cur.w] > 0
     THEN /\ panicMsg' = "send on closed channel"
          /\ UNCHANGED <<queueLog, wpc, wq, cur, mainPc>>
     ELSE /\ wpc[cur.w] = "recv"
          /\ queueLog' = [queueLog EXCEPT ![cur.w] = Append(@, [Host |-> cur.Host, line |-> cur.line])]
          /\ wq' = [wq EXCEPT ![cur.w] = [Host |-> cur.Host, line |-> cur.line]]
          /\ wpc' = [wpc EXCEPT ![cur.w] = "work"]
          /\ cur' = NoCur
          /\ mainPc' = "read"
          /\ UNCHANGED panicMsg
  /\ UNCHANGED <<inputVars, fieldsPerRecord, records, hostWorkerMap, workerIndex, parseFailure,
                 retErr, closeIdx, chClosed, wres, executed, wg, closerVars, resultLog,
                 aggVars, statLog, errVars, output>>

\* faulty variant: the channels are closed while ProcessCsv is still reading
CloseWorkerChDuringDispatch ==
  /\ Running /\ mainPc \in {"read", "close"} /\ closeIdx < workerCount
  /\ IF chClosed[closeIdx] > 0
     THEN /\ panicMsg' = "close of closed channel"
          /\ UNCHANGED <<chClosed, closeIdx>>
     ELSE /\ chClosed' = [chClosed EXCEPT ![closeIdx] = @ + 1]
          /\ closeIdx' = closeIdx + 1
          /\ UNCHANGED panicMsg
  /\ UNCHANGED <<inputVars, mainPc, dispVars, queueLog, workerVars, closerVars, resultLog,
                 aggVars, statLog, errVars, output>>

\* main: for _, ch := range workerChs { close(ch) }, one channel per step
CloseWorkerCh ==
  /\ Running /\ mainPc = "close" /\ closeIdx < workerCount
  /\ IF chClosed[closeIdx] > 0
     THEN /\ panicMsg' = "close of closed channel"
          /\ UNCHANGED <<chClosed, closeIdx>>
     ELSE /\ chClosed' = [chClosed EXCEPT ![closeIdx] = @ + 1]
          /\ closeIdx' = closeIdx + 1
          /\ UNCHANGED panicMsg
  /\ UNCHANGED <<inputVars, mainPc, dispVars, queueLog, workerVars, closerVars, resultLog,
                 aggVars, statLog, errVars, output>>

\* faulty variant: the mean is taken over all results, failed ones included
MakeStatsMeanOverAll ==
  [ExecCount |-> execCount,
   FailedCount |-> sqlFailure,
   Sum |-> Fin(sum),
   Min |-> min,
   Max |-> max,
   Mean |-> FloatDiv(sum, execCount + sqlFailure),
   Median |-> percentile(durations, 50),
   Percentile95th |-> percentile(durations, 95),
   Percentile99th |-> percentile(durations, 99)]

\* the Stats literal CollectResult sends
MakeStats ==
  [ExecCount |-> execCount,
   FailedCount |-> sqlFailure,
   Sum |-> Fin(sum),
   Min |-> min,
   Max |-> max,
   Mean |-> FloatDiv(sum, execCount),
   Median |-> percentile(durations, 50),
   Percentile95th |-> percentile(durations, 95),
   Percentile99th |-> percentile(durations, 99)]

\* main: stat := <-statCh   together with   CollectResult: statCh <- Stats{...}
RecvStat ==
  /\ Running /\ mainPc = "close" /\ closeIdx = workerCount
  /\ aggPc = "sendStat"
  /\ statLog' = Append(statLog, MakeStats)
  /\ aggPc' = "done"
  /\ mainPc' = "closeErr"
  /\ UNCHANGED <<inputVars, dispVars, closeIdx, queueVars, workerVars, closerVars, resultLog,
                 aggR, durations, execCount, sqlFailure, min, max, sum, errVars, output,
                 panicMsg>>

\* faulty variant: errCh is closed as soon as the worker channels are
\* closed, before the Stats value is received
CloseErrChBeforeStat ==
  /\ Running
  /\ \/ mainPc = "closeErr"
     \/ mainPc = "close" /\ closeIdx = workerCount /\ errClosed = 0
  /\ IF errClosed > 0
     THEN /\ mainPc' = "print"
          /\ UNCHANGED errClosed
     ELSE /\ errClosed' = errClosed + 1
          /\ mainPc' = (IF mainPc = "closeErr" THEN "print" ELSE mainPc)
  /\ UNCHANGED <<inputVars, dispVars, closeIdx, queueVars, workerVars, closerVars, resultLog,
                 aggVars, statLog, errLog, loggerPc, output, panicMsg>>

\* main: close(errCh)
CloseErrCh ==
  /\ Running /\ mainPc = "closeErr"
  /\ IF errClosed > 0
     THEN /\ panicMsg' = "close of closed channel"
          /\ UNCHANGED <<errClosed, mainPc>>
     ELSE /\ errClosed' = errClosed + 1
          /\ mainPc' = "print"
          /\ UNCHANGED panicMsg
  /\ UNCHANGED <<inputVars, dispVars, closeIdx, queueVars, workerVars, closerVars, resultLog,
                 aggVars, statLog, errLog, loggerPc, output>>

\* faulty variant: the total leaves the parse failures out
FormatStatNoParse(pf, stat) ==
  [printed |-> TRUE,
   total |-> stat.ExecCount + stat.FailedCount,
   exec |-> stat.ExecCount,
   sqlFailure |-> stat.FailedCount,
   parseFailure |-> pf]

\* the four counters of the summary FormatStat renders
FormatStat(pf, stat) ==
  [printed |-> TRUE,
   total |-> stat.ExecCount + stat.FailedCount + pf,
   exec |-> stat.ExecCount,
   sqlFailure |-> stat.FailedCount,
   parseFailure |-> pf]

\* main: print FormatStat(parseFailure, stat) and return
PrintResult ==
  /\ Running /\ mainPc = "print"
  /\ output' = FormatStat(parseFailure, statLog[Len(statLog)])
  /\ mainPc' = "done"
  /\ UNCHANGED <<inputVars, dispVars, closeIdx, queueVars, workerVars, closerVars, resultLog,
                 aggVars, statLog, errVars, panicMsg>>

\* --------------------------------------------------------------- workers
\* faulty variant: the error work(q) returned is not put in the QueryResult
MakeResultNilError(q, elapsed, err) ==
  [Host |-> q.Host, Duration |-> elapsed, Error |-> NoErr, line |-> q.line]

\* QueryResult{Host: q.Host, Duration: float64(elapsed.Milliseconds()), Error: err}
MakeResult(q, elapsed, err) ==
  [Host |-> q.Host, Duration |-> elapsed, Error |-> err, line |-> q.line]

\* faulty variant: after a failed work(q) the worker takes the next task
\* without publishing a QueryResult
WorkerExecuteSkipOnError(w) ==
  /\ Running /\ wpc[w] = "work"
  /\ \E o \in Outcomes : LET err == o.err  elapsed == o.elapsed IN
       /\ wres' = [wres EXCEPT ![w] =
                     IF err = NoErr THEN MakeResult(wq[w], elapsed, err) ELSE NoResult]
       /\ executed' = [executed EXCEPT ![w] =
                         Append(@, [Host |-> wq[w].Host, line |-> wq[w].line, err |-> err])]
       /\ wpc' = [wpc EXCEPT ![w] = IF err = NoErr THEN "send" ELSE "recv"]
  /\ UNCHANGED <<inputVars, mainPc, dispVars, closeIdx, queueVars, wq, wg, closerVars,
                 resultLog, aggVars, statLog, errVars, output, panicMsg>>

\* faulty variant: a failed work(q) is called a second time
WorkerExecuteRetry(w) ==
  /\ Running /\ wpc[w] = "work"
  /\ \E o \in Outcomes : LET err == o.err  elapsed == o.elapsed IN
       LET call == [Host |-> wq[w].Host, line |-> wq[w].line, err |-> err] IN
       /\ wres' = [wres EXCEPT ![w] = MakeResult(wq[w], elapsed, err)]
       /\ executed' = [executed EXCEPT ![w] =
                         IF err = NoErr THEN Append(@, call) ELSE Append(Append(@, call), call)]
  /\ wpc' = [wpc EXCEPT ![w] = "send"]
  /\ UNCHANGED <<inputVars, mainPc, dispVars, closeIdx, queueVars, wq, wg, closerVars,
                 resultLog, aggVars, statLog, errVars, output, panicMsg>>

\* faulty variant: a failed work(q) makes the worker return
WorkerExecuteReturnOnError(w) ==
  /\ Running /\ wpc[w] = "work"
  /\ \E o \in Outcomes : LET err == o.err  elapsed == o.elapsed IN
       /\ wres' = [wres EXCEPT ![w] =
                     IF err = NoErr THEN MakeResult(wq[w], elapsed, err) ELSE NoResult]
       /\ executed' = [executed EXCEPT ![w] =
                         Append(@, [Host |-> wq[w].Host, line |-> wq[w].line, err |-> err])]
       /\ wpc' = [wpc EXCEPT ![w] = IF err = NoErr THEN "send" ELSE "done"]
       /\ wg' = IF err = NoErr THEN wg ELSE wg - 1
  /\ UNCHANGED <<inputVars, mainPc, dispVars, closeIdx, queueVars, wq, closerVars,
                 resultLog, aggVars, statLog, errVars, output, panicMsg>>

\* worker w: now := time.Now(); err := work(q); elapsed := time.Since(now)
\* work returns nil or an error, after any whole number of milliseconds
WorkerExecute(w) ==
  /\ Running /\ wpc[w] = "work"
  /\ \E o \in Outcomes : LET err == o.err  elapsed == o.elapsed IN
       /\ wres' = [wres EXCEPT ![w] = MakeResult(wq[w], elapsed, err)]
       /\ executed' = [executed EXCEPT ![w] =
                         Append(@, [Host |-> wq[w].Host, line |-> wq[w].line, err |-> err])]
  /\ wpc' = [wpc EXCEPT ![w] = "send"]
  /\ UNCHANGED <<inputVars, mainPc, dispVars, closeIdx, queueVars, wq, wg, closerVars,
                 resultLog, aggVars, statLog, errVars, output, panicMsg>>

\* faulty variant: the continue after an error is missing, so a failed
\* QueryResult is also accumulated as an executed one
CollectNoContinue(r) ==
  /\ execCount' = execCount + 1
  /\ durations' = Append(durations, r.Duration)
  /\ min' = MathMin(min, Fin(r.Duration))
  /\ max' = MathMax(max, Fin(r.Duration))
  /\ sum' = sum + r.Duration
  /\ IF r.Error # NoErr
     THEN /\ aggR' = r
          /\ aggPc' = "sendErr"
          /\ UNCHANGED sqlFailure
     ELSE UNCHANGED <<aggR, aggPc, sqlFailure>>

\* faulty variant: min and max are updated before the error check, so a
\* failed QueryResult's duration takes part in them
CollectExtremesOfAll(r) ==
  /\ min' = MathMin(min, Fin(r.Duration))
  /\ max' = MathMax(max, Fin(r.Duration))
  /\ IF r.Error # NoErr
     THEN /\ aggR' = r
          /\ aggPc' = "sendErr"
          /\ UNCHANGED <<durations, execCount, sqlFailure, sum>>
     ELSE /\ execCount' = execCount + 1
          /\ durations' = Append(durations, r.Duration)
          /\ sum' = sum + r.Duration
          /\ UNCHANGED <<aggR, aggPc, sqlFailure>>

\* CollectResult: the body of   for r := range result   for one received r,
\* up to the next blocking point (the send on errCh or the next receive)
Collect(r) ==
  IF r.Error # NoErr
  THEN /\ aggR' = r
       /\ aggPc' = "sendErr"
       /\ UNCHANGED <<durations, execCount, sqlFailure, min, max, sum>>
  ELSE /\ execCount' = execCount + 1
       /\ durations' = Append(durations, r.Duration)
       /\ min' = MathMin(min, Fin(r.Duration))
       /\ max' = MathMax(max, Fin(r.Duration))
       /\ sum' = sum + r.Duration
       /\ UNCHANGED <<aggR, aggPc, sqlFailure>>

\* worker w: result <- QueryResult{...}   together with CollectResult's receive
PublishResult(w) ==
  /\ Running /\ wpc[w] = "send"
  /\ IF resultClosed > 0
     THEN /\ panicMsg' = "send on closed channel"
          /\ UNCHANGED <<wpc, wres, resultLog, aggVars>>
     ELSE /\ aggPc = "recv"
          /\ resultLog' = Append(resultLog, wres[w])
          /\ wpc' = [wpc EXCEPT ![w] = "recv"]
          /\ wres' = [wres EXCEPT ![w] = NoResult]
          /\ Collect(wres[w])
          /\ UNCHANGED panicMsg
  /\ UNCHANGED <<inputVars, mainPc, dispVars, closeIdx, queueVars, wq, executed, wg,
                 closerVars, statLog, errVars, output>>

\* faulty variant: the worker returns without workerWg.Done()
WorkerExitNoDone(w) ==
  /\ Running /\ wpc[w] = "recv" /\ chClosed[w] > 0
  /\ wpc' = [wpc EXCEPT ![w] = "done"]
  /\ UNCHANGED <<inputVars, mainPc, dispVars, closeIdx, queueVars, wq, wres, executed, wg,
                 closerVars, resultLog, aggVars, statLog, errVars, output, panicMsg>>

\* worker w: its channel is closed, the range loop ends, deferred workerWg.Done()
WorkerExit(w) ==
  /\ Running /\ wpc[w] = "recv" /\ chClosed[w] > 0
  /\ wpc' = [wpc EXCEPT ![w] = "done"]
  /\ wg' = wg - 1
  /\ UNCHANGED <<inputVars, mainPc, dispVars, closeIdx, queueVars, wq, wres, executed,
                 closerVars, resultLog, aggVars, statLog, errVars, output, panicMsg>>

\* faulty variant: result is closed without waiting for the workers
WaitWorkersNoBarrier ==
  /\ Running /\ closerPc = "wait"
  /\ closerPc' = "close"
  /\ UNCHANGED <<inputVars, mainPc, dispVars, closeIdx, queueVars, workerVars, resultClosed,
                 resultLog, aggVars, statLog, errVars, output, panicMsg>>

\* closer goroutine: workerWg.Wait() returns
WaitWorkers ==
  /\ Running /\ closerPc = "wait" /\ wg = 0
  /\ closerPc' = "close"
  /\ UNCHANGED <<inputVars, mainPc, dispVars, closeIdx, queueVars, workerVars, resultClosed,
                 resultLog, aggVars, statLog, errVars, output, panicMsg>>

\* closer goroutine: close(result)
CloseResult ==
  /\ Running /\ closerPc = "close"
  /\ IF resultClosed > 0
     THEN /\ panicMsg' = "close of closed channel"
          /\ UNCHANGED <<closerPc, resultClosed>>
     ELSE /\ resultClosed' = resultClosed + 1
          /\ closerPc' = "done"
          /\ UNCHANGED panicMsg
  /\ UNCHANGED <<inputVars, mainPc, dispVars, closeIdx, queueVars, workerVars, resultLog,
                 aggVars, statLog, errVars, output>>

\* ----------------------------------------------------------- CollectResult
\* faulty variant: the error is sent but sqlFailure is not incremented
SendSqlErrNoCount ==
  /\ Running /\ aggPc = "sendErr"
  /\ loggerPc = "recv" /\ errClosed = 0
  /\ errLog' = Append(errLog, [src |-> "sql", err |-> aggR.Error, line |-> aggR.line])
  /\ aggR' = NoResult
  /\ aggPc' = "recv"
  /\ UNCHANGED <<inputVars, mainPc, dispVars, closeIdx, queueVars, workerVars, closerVars,
                 resultLog, durations, execCount, sqlFailure, min, max, sum, statLog,
                 errClosed, loggerPc, output, panicMsg>>

\* errCh <- fmt.Errorf("sql err: %w", r.Error); sqlFailure++; continue
SendSqlErr ==
  /\ Running /\ aggPc = "sendErr"
  /\ IF errClosed > 0
     THEN /\ panicMsg' = "send on closed channel"
          /\ UNCHANGED <<errLog, sqlFailure, aggR, aggPc>>
     ELSE /\ loggerPc = "recv"
          /\ errLog' = Append(errLog, [src |-> "sql", err |-> aggR.Error, line |-> aggR.line])
          /\ sqlFailure' = sqlFailure + 1
          /\ aggR' = NoResult
          /\ aggPc' = "recv"
          /\ UNCHANGED panicMsg
  /\ UNCHANGED <<inputVars, mainPc, dispVars, closeIdx, queueVars, workerVars, closerVars,
                 resultLog, durations, execCount, min, max, sum, statLog, errClosed,
                 loggerPc, output>>

\* faulty variant: the loop is left although result is still open
EndOfResultsEarly ==
  /\ Running /\ aggPc = "recv"
  /\ durations' = SortFloat64s(durations)
  /\ aggPc' = "sendStat"
  /\ UNCHANGED <<inputVars, mainPc, dispVars, closeIdx, queueVars, workerVars, closerVars,
                 resultLog, aggR, execCount, sqlFailure, min, max, sum, statLog, errVars,
                 output, panicMsg>>

\* result is closed: the range loop ends; sort.Float64s(durations); the
\* goroutine then blocks on statCh <- Stats{...}
EndOfResults ==
  /\ Running /\ aggPc = "recv" /\ resultClosed > 0
  /\ durations' = SortFloat64s(durations)
  /\ aggPc' = "sendStat"
  /\ UNCHANGED <<inputVars, mainPc, dispVars, closeIdx, queueVars, workerVars, closerVars,
                 resultLog, aggR, execCount, sqlFailure, min, max, sum, statLog, errVars,
                 output, panicMsg>>

\* ------------------------------------------------------------------ logger
\* for err := range errCh ends once errCh is closed
LoggerExit ==
  /\ Running /\ loggerPc = "recv" /\ errClosed > 0
  /\ loggerPc' = "done"
  /\ UNCHANGED <<inputVars, mainPc, dispVars, closeIdx, queueVars, workerVars, closerVars,
                 resultLog, aggVars, statLog, errClosed, errLog, output, panicMsg>>

\* ------------------------------------------------------------ transitions
MainStep ==
  \/ StartWorkers
  \/ ReadHeader
  \/ ReadRecord
  \/ SendParseErr
  \/ SendTask
  \/ CloseWorkerCh
  \/ RecvStat
  \/ CloseErrCh
  \/ PrintResult

WorkerStep(w) ==
  \/ WorkerExecute(w)
  \/ PublishResult(w)
  \/ WorkerExit(w)

CloserStep ==
  \/ WaitWorkers
  \/ CloseResult

Next ==
  \/ MainStep
  \/ \E w \in DOMAIN wpc : WorkerStep(w)
  \/ CloserStep
  \/ SendSqlErr
  \/ EndOfResults
  \/ LoggerExit

Spec == Init /\ [][Next]_vars

\* The Go scheduler runs every goroutine that can take a step.
FairSpec ==
  /\ Spec
  /\ WF_vars(MainStep)
  /\ \A w \in 0..(MaxWorkers - 1) : WF_vars(w \in DOMAIN wpc /\ WorkerStep(w))
  /\ WF_vars(CloserStep)
  /\ WF_vars(SendSqlErr)
  /\ WF_vars(EndOfResults)
  /\ WF_vars(LoggerExit)

\* ------------------------------------------------- TestCollectResult
\* CollectResult driven as in its unit test: a feeder goroutine sends the
\* test results on resCh and closes it, a goroutine drains errCh, the test
\* receives the Stats, closes errCh and waits for the drain to end.
TestInit ==
  /\ header = << >>
  /\ workerCount = 0
  /\ mainPc = "testRecvStat"
  /\ fieldsPerRecord = 0
  /\ records = << >>
  /\ hostWorkerMap = << >>
  /\ workerIndex = 0
  /\ parseFailure = 0
  /\ cur = NoCur
  /\ retErr = NoErr
  /\ closeIdx = 0
  /\ chClosed = << >>
  /\ queueLog = << >>
  /\ wpc = << >>
  /\ wq = << >>
  /\ wres = << >>
  /\ executed = << >>
  /\ wg = 0
  /\ closerPc = "none"
  /\ resultClosed = 0
  /\ resultLog = << >>
  /\ aggPc = "recv"
  /\ aggR = NoResult
  /\ durations = << >>
  /\ execCount = 0
  /\ sqlFailure = 0
  /\ min = PosInf
  /\ max = NegInf
  /\ sum = 0
  /\ statLog = << >>
  /\ errClosed = 0
  /\ errLog = << >>
  /\ loggerPc = "recv"
  /\ output = NoOutput
  /\ panicMsg = ""
  /\ feed \in SeqsUpTo(TestResults, MaxFeed)
  /\ pctData = << >>
  /\ pctP = 0
  /\ pctRes = << >>

\* feeder: resCh <- r   together with CollectResult's receive
FeedResult ==
  /\ Running /\ feed # << >> /\ resultClosed = 0
  /\ aggPc = "recv"
  /\ LET r == [Head(feed) EXCEPT !.line = Len(resultLog) + 1] IN
       /\ resultLog' = Append(resultLog, r)
       /\ Collect(r)
  /\ feed' = Tail(feed)
  /\ UNCHANGED <<header, workerCount, pctData, pctP, pctRes, mainPc, dispVars, closeIdx,
                 queueVars, workerVars, closerVars, statLog, errVars, output, panicMsg>>

\* feeder: close(resCh)
FeedClose ==
  /\ Running /\ feed = << >> /\ resultClosed = 0 /\ mainPc = "testRecvStat"
  /\ resultClosed' = 1
  /\ UNCHANGED <<inputVars, mainPc, dispVars, closeIdx, queueVars, workerVars, closerPc,
                 resultLog, aggVars, statLog, errVars, output, panicMsg>>

\* test: stat := <-statCh   together with   CollectResult: statCh <- Stats{...}
TestRecvStat ==
  /\ Running /\ mainPc = "testRecvStat"
  /\ aggPc = "sendStat"
  /\ statLog' = Append(statLog, MakeStats)
  /\ aggPc' = "done"
  /\ mainPc' = "testCloseErr"
  /\ UNCHANGED <<inputVars, dispVars, closeIdx, queueVars, workerVars, closerVars, resultLog,
                 aggR, durations, execCount, sqlFailure, min, max, sum, errVars, output,
                 panicMsg>>

\* test: close(statCh); close(errCh)
TestCloseErrCh ==
  /\ Running /\ mainPc = "testCloseErr"
  /\ errClosed' = errClosed + 1
  /\ mainPc' = "testWait"
  /\ UNCHANGED <<inputVars, dispVars, closeIdx, queueVars, workerVars, closerVars, resultLog,
                 aggVars, statLog, errLog, loggerPc, output, panicMsg>>

\* test: errWg.Wait() returns once the drain of errCh has ended
TestWait ==
  /\ Running /\ mainPc = "testWait" /\ loggerPc = "done"
  /\ mainPc' = "done"
  /\ UNCHANGED <<inputVars, dispVars, closeIdx, queueVars, workerVars, closerVars, resultLog,
                 aggVars, statLog, errVars, output, panicMsg>>

TestNext ==
  \/ FeedResult
  \/ FeedClose
  \/ SendSqlErr
  \/ EndOfResults
  \/ TestRecvStat
  \/ TestCloseErrCh
  \/ LoggerExit
  \/ TestWait

TestSpec == TestInit /\ [][TestNext]_vars

\* ---------------------------------------------------- calls of percentile
\* A caller holds a slice and a p and calls percentile(data, p) twice.
PctInit ==
  /\ header = << >>
  /\ workerCount = 0
  /\ mainPc = "percentile"
  /\ fieldsPerRecord = 0
  /\ records = << >>
  /\ hostWorkerMap = << >>
  /\ workerIndex = 0
  /\ parseFailure = 0
  /\ cur = NoCur
  /\ retErr = NoErr
  /\ closeIdx = 0
  /\ chClosed = << >>
  /\ queueLog = << >>
  /\ wpc = << >>
  /\ wq = << >>
  /\ wres = << >>
  /\ executed = << >>
  /\ wg = 0
  /\ closerPc = "none"
  /\ resultClosed = 0
  /\ resultLog = << >>
  /\ aggPc = "none"
  /\ aggR = NoResult
  /\ durations = << >>
  /\ execCount = 0
  /\ sqlFailure = 0
  /\ min = PosInf
  /\ max = NegInf
  /\ sum = 0
  /\ statLog = << >>
  /\ errClosed = 0
  /\ errLog = << >>
  /\ loggerPc = "none"
  /\ output = NoOutput
  /\ panicMsg = ""
  /\ feed = << >>
  /\ pctData \in SeqsUpTo(Samples, MaxSamples)
  /\ pctP \in PercentileArgs
  /\ pctRes = << >>

\* faulty variant: percentile sorts the caller's slice before it reads it
CallPercentileSorting ==
  /\ Running /\ mainPc = "percentile" /\ Len(pctRes) < 2
  /\ pctData' = SortFloat64s(pctData)
  /\ LET v == percentile(SortFloat64s(pctData), pctP) IN
       IF v.kind = "panic"
       THEN /\ panicMsg' = "index out of range"
            /\ UNCHANGED pctRes
       ELSE /\ pctRes' = Append(pctRes, v)
            /\ UNCHANGED panicMsg
  /\ UNCHANGED <<header, workerCount, feed, pctP, mainPc, dispVars, closeIdx, queueVars,
                 workerVars, closerVars, resultLog, aggVars, statLog, errVars, output>>

\* one call of percentile(data, p): it only reads data; an index past the
\* end of the slice is a runtime panic
CallPercentile ==
  /\ Running /\ mainPc = "percentile" /\ Len(pctRes) < 2
  /\ LET v == percentile(pctData, pctP) IN
       IF v.kind = "panic"
       THEN /\ panicMsg' = "index out of range"
            /\ UNCHANGED pctRes
       ELSE /\ pctRes' = Append(pctRes, v)
            /\ UNCHANGED panicMsg
  /\ UNCHANGED <<header, workerCount, feed, pctData, pctP, mainPc, dispVars, closeIdx,
                 queueVars, workerVars, closerVars, resultLog, aggVars, statLog, errVars,
                 output>>

PctNext == CallPercentile

PctSpec == PctInit /\ [][PctNext]_vars

\* ------------------------------------------- the historical single-file main
\* The earlier main does everything itself: it starts the workers inline,
\* the aggregating goroutine logs failed results with errLogger, prints the
\* summary and signals resWg; main logs and counts parse failures in its own
\* read loop, closes the worker channels and waits for resWg.  There is no
\* errCh and no statCh.  parseFailure is a variable of main that the
\* aggregating goroutine reads.  Reading the header, reading a record and
\* choosing its worker, the send to a worker, the close loop, the worker loop
\* and the goroutine closing result are the same code as in the later
\* version: ReadHeader, ReadRecord, SendTask, CloseWorkerCh, WorkerExecute,
\* WorkerExit, WaitWorkers and CloseResult are used as they are.

\* main: the worker setup, the check of workerChs, and the two goroutines
HistStartWorkers ==
  /\ Running /\ mainPc = "start"
  /\ IF workerCount = 0
     THEN /\ mainPc' = "fatal"
          /\ UNCHANGED <<queueVars, workerVars, closerPc, aggPc>>
     ELSE /\ chClosed' = [w \in Workers |-> 0]
          /\ queueLog' = [w \in Workers |-> << >>]
          /\ wpc' = [w \in Workers |-> "recv"]
          /\ wq' = [w \in Workers |-> NoTask]
          /\ wres' = [w \in Workers |-> NoResult]
          /\ executed' = [w \in Workers |-> << >>]
          /\ wg' = workerCount
          /\ closerPc' = "wait"
          /\ aggPc' = "recv"
          /\ mainPc' = "header"
  /\ UNCHANGED <<inputVars, dispVars, closeIdx, resultClosed, resultLog, aggR, durations,
                 execCount, sqlFailure, min, max, sum, statLog, errVars, output, panicMsg>>

\* main's read loop: errLogger.Println(err) / Printf("record on line ...");
\* parseFailure += 1; continue
HistCountParseFailure ==
  /\ Running /\ mainPc = "sendErr"
  /\ errLog' = Append(errLog, [src |-> "parse", err |-> cur.err, line |-> cur.line])
  /\ parseFailure' = parseFailure + 1
  /\ cur' = NoCur
  /\ mainPc' = "read"
  /\ UNCHANGED <<inputVars, fieldsPerRecord, records, hostWorkerMap, workerIndex, retErr,
                 closeIdx, queueVars, workerVars, closerVars, resultLog, aggVars, statLog,
                 errClosed, loggerPc, output, panicMsg>>

\* the aggregating goroutine: the body of   for r := range result   for one r
HistCollect(r) ==
  IF r.Error # NoErr
  THEN /\ errLog' = Append(errLog, [src |-> "sql", err |-> r.Error, line |-> r.line])
       /\ sqlFailure' = sqlFailure + 1
       /\ UNCHANGED <<durations, execCount, min, max, sum>>
  ELSE /\ execCount' = execCount + 1
       /\ durations' = Append(durations, r.Duration)
       /\ min' = MathMin(min, Fin(r.Duration))
       /\ max' = MathMax(max, Fin(r.Duration))
       /\ sum' = sum + r.Duration
       /\ UNCHANGED <<sqlFailure, errLog>>

\* worker w: result <- r   together with the aggregating goroutine's receive
HistPublishResult(w) ==
  /\ Running /\ wpc[w] = "send"
  /\ IF resultClosed > 0
     THEN /\ panicMsg' = "send on closed channel"
          /\ UNCHANGED <<wpc, wres, resultLog, durations, execCount, sqlFailure, min, max,
                         sum, errLog>>
     ELSE /\ aggPc = "recv"
          /\ resultLog' = Append(resultLog, wres[w])
          /\ wpc' = [wpc EXCEPT ![w] = "recv"]
          /\ wres' = [wres EXCEPT ![w] = NoResult]
          /\ HistCollect(wres[w])
          /\ UNCHANGED panicMsg
  /\ UNCHANGED <<inputVars, mainPc, dispVars, closeIdx, queueVars, wq, executed, wg,
                 closerVars, aggPc, aggR, statLog, errClosed, loggerPc, output>>

\* faulty variant: the goroutine goes on to the summary although result is
\* still open
HistEndOfResultsNoWait ==
  /\ Running /\ aggPc = "recv"
  /\ aggPc' = "readPf"
  /\ UNCHANGED <<inputVars, mainPc, dispVars, closeIdx, queueVars, workerVars, closerVars,
                 resultLog, aggR, durations, execCount, sqlFailure, min, max, sum, statLog,
                 errVars, output, panicMsg>>

\* result is closed: the range loop of the aggregating goroutine ends
HistEndOfResults ==
  /\ Running /\ aggPc = "recv" /\ resultClosed > 0
  /\ aggPc' = "readPf"
  /\ UNCHANGED <<inputVars, mainPc, dispVars, closeIdx, queueVars, workerVars, closerVars,
                 resultLog, aggR, durations, execCount, sqlFailure, min, max, sum, statLog,
                 errVars, output, panicMsg>>

\* totalCount := execCount + sqlFailure + parseFailure; sort.Float64s;
\* infoLogger.Printf(resultMsg, ...); resWg.Done()
HistPrint ==
  /\ Running /\ aggPc = "readPf"
  /\ durations' = SortFloat64s(durations)
  /\ output' = [printed |-> TRUE,
                total |-> execCount + sqlFailure + parseFailure,
                exec |-> execCount,
                sqlFailure |-> sqlFailure,
                parseFailure |-> parseFailure]
  /\ aggPc' = "done"
  /\ UNCHANGED <<inputVars, mainPc, dispVars, closeIdx, queueVars, workerVars, closerVars,
                 resultLog, aggR, execCount, sqlFailure, min, max, sum, statLog, errVars,
                 panicMsg>>

\* main: resWg.Wait() returns and main ends
HistWait ==
  /\ Running /\ mainPc = "close" /\ closeIdx = workerCount
  /\ aggPc = "done"
  /\ mainPc' = "done"
  /\ UNCHANGED <<inputVars, dispVars, closeIdx, queueVars, workerVars, closerVars, resultLog,
                 aggVars, statLog, errVars, output, panicMsg>>

HistMainStep ==
  \/ HistStartWorkers
  \/ ReadHeader
  \/ ReadRecord
  \/ HistCountParseFailure
  \/ SendTask
  \/ CloseWorkerCh
  \/ HistWait

HistWorkerStep(w) ==
  \/ WorkerExecute(w)
  \/ HistPublishResult(w)
  \/ WorkerExit(w)

HistNext ==
  \/ HistMainStep
  \/ \E w \in DOMAIN wpc : HistWorkerStep(w)
  \/ CloserStep
  \/ HistEndOfResults
  \/ HistPrint

HistSpec == Init /\ [][HistNext]_vars

\* ------------------------------------------------------------- properties
\* What the statements below say about the run, read off the logs.

\* a data record is malformed: wrong field count (against the header or
\* against the three expected fields), empty host, unparseable start or end
Malformed(line) ==
  \/ Len(line) # Len(header)
  \/ Len(line) # 3
  \/ line[1] = 0
  \/ line[2] = 0
  \/ line[3] = 0

MalformedLines == { k \in DOMAIN records : Malformed(records[k]) }
WellFormedLines == DOMAIN records \ MalformedLines

SentLines(w) == { queueLog[w][i].line : i \in DOMAIN queueLog[w] }
AllSentLines == UNION { SentLines(w) : w \in DOMAIN queueLog }
ResultLines == { resultLog[i].line : i \in DOMAIN resultLog }

RECURSIVE TotalLen(_, _)
TotalLen(f, S) ==
  IF S = {} THEN 0
  ELSE LET x == CHOOSE y \in S : TRUE IN Len(f[x]) + TotalLen(f, S \ {x})

TasksSent == TotalLen(queueLog, DOMAIN queueLog)
ExecuteCalls == TotalLen(executed, DOMAIN executed)

\* the tasks of a log of work() calls
TasksOf(calls) == [i \in DOMAIN calls |-> [Host |-> calls[i].Host, line |-> calls[i].line]]

SqlErrsSent == Cardinality({ i \in DOMAIN errLog : errLog[i].src = "sql" })
ParseErrsSent == Cardinality({ i \in DOMAIN errLog : errLog[i].src = "parse" })
ErrResults == Cardinality({ i \in DOMAIN resultLog : resultLog[i].Error # NoErr })

\* the first well-formed record of host h, and the number of distinct hosts
\* of well-formed records before it
FirstLine(h) == CHOOSE k \in WellFormedLines :
                  /\ records[k][1] = h
                  /\ \A j \in WellFormedLines : records[j][1] = h => k <= j
HostRank(h) == Cardinality({ records[j][1] : j \in { i \in WellFormedLines : i < FirstLine(h) } })

\* ProcessCsv has returned without error
ProcessCsvReturned == mainPc \in {"close", "closeErr", "print", "done"}

\* C1: with N >= 1 workers, the Stats CollectResult emits has
\* ExecCount + FailedCount = number of tasks ProcessCsv sent to worker queues.
C1_CountsEqualDispatched ==
  workerCount >= 1 =>
    \A i \in DOMAIN statLog : statLog[i].ExecCount + statLog[i].FailedCount = TasksSent

C1_Witness ==
  /\ workerCount = 2
  /\ Len(statLog) = 1
  /\ statLog[1].ExecCount = 1
  /\ statLog[1].FailedCount = 1
  /\ parseFailure = 1

\* C2: tasks sharing a host all go to one worker queue, and that worker
\* receives and executes them in input order.
C2_HostAffinityInOrder ==
  workerCount >= 1 =>
    /\ \A w1 \in DOMAIN queueLog, w2 \in DOMAIN queueLog :
         \A i \in DOMAIN queueLog[w1], j \in DOMAIN queueLog[w2] :
           queueLog[w1][i].Host = queueLog[w2][j].Host => w1 = w2
    /\ \A w \in DOMAIN queueLog :
         /\ \A i \in DOMAIN queueLog[w], j \in DOMAIN queueLog[w] :
              i < j => queueLog[w][i].line < queueLog[w][j].line
         /\ \A i \in DOMAIN queueLog[w] :
              records[queueLog[w][i].line][1] = queueLog[w][i].Host
         /\ TasksOf(executed[w]) = SubSeq(queueLog[w], 1, Len(executed[w]))

C2_Witness ==
  /\ workerCount = 2
  /\ mainPc # "start"
  /\ Len(executed[0]) = 2
  /\ executed[0][1].Host = executed[0][2].Host
  /\ executed[0][1].line = 1
  /\ executed[0][2].line = 3
  /\ Len(executed[1]) = 1

\* C3: the k-th distinct host among well-formed records (k from 0) is
\* assigned worker k mod N, and every record of that host gets that index.
C3_RoundRobin ==
  workerCount >= 1 =>
    /\ \A w \in DOMAIN queueLog : \A i \in DOMAIN queueLog[w] :
         w = HostRank(queueLog[w][i].Host) % workerCount
    /\ mainPc = "sendTask" => cur.w = HostRank(cur.Host) % workerCount
    /\ \A h \in DOMAIN hostWorkerMap : hostWorkerMap[h] = HostRank(h) % workerCount

C3_Witness ==
  /\ workerCount = 2
  /\ mainPc # "start"
  /\ Len(queueLog[0]) = 2
  /\ Len(queueLog[1]) = 1
  /\ queueLog[1][1].line = 2
  /\ queueLog[0][2].line = 3

\* C4: the result channel is closed exactly once, only after all N workers
\* have terminated, and no worker sends on it after the close.
C4_ResultClosedAfterWorkers ==
  /\ resultClosed <= 1
  /\ resultClosed = 1 =>
       /\ DOMAIN wpc = Workers
       /\ \A w \in Workers : wpc[w] = "done"
  /\ closerPc = "done" <=> resultClosed = 1
  /\ mainPc \in {"closeErr", "print", "done"} => resultClosed = 1
  /\ panicMsg \notin {"send on closed channel", "close of closed channel"}

C4_Witness ==
  /\ workerCount = 2
  /\ mainPc # "start"
  /\ resultClosed = 1
  /\ Len(queueLog[0]) >= 1
  /\ Len(queueLog[1]) >= 1
  /\ Len(resultLog) = 3

\* every worker has terminated, result is closed and main has the Stats value
Completed ==
  /\ mainPc \in {"closeErr", "print", "done"}
  /\ Len(statLog) = 1
  /\ resultClosed = 1
  /\ DOMAIN wpc = Workers
  /\ \A w \in Workers : wpc[w] = "done"

HeaderValid ==
  header \in { <<"hostname", "start_time", "end_time">>, <<"hostname,start_time,end_time">> }

\* C5 as stated: with N >= 1, for every input, under fair scheduling every
\* worker terminates, result is closed and main receives the Stats value.
C5_AnyInputCompletes == (workerCount >= 1) => <>Completed

\* C5: with N >= 1 and an input whose first line is a valid header, under
\* fair scheduling the run never gets stuck: every worker terminates, result
\* is closed and main receives the Stats value.
C5_ValidHeaderCompletes == (workerCount >= 1 /\ HeaderValid) => <>Completed

C5_Witness ==
  /\ Completed
  /\ workerCount = 2
  /\ Len(queueLog[0]) >= 1
  /\ Len(queueLog[1]) >= 1
  /\ ErrResults >= 1
  /\ parseFailure >= 1

\* C6: exactly one Result is published per task sent to a worker queue, none
\* for a record that failed parsing, and the aggregator receives each once.
C6_OneResultPerTask ==
  /\ \A i \in DOMAIN resultLog, j \in DOMAIN resultLog :
       i # j => resultLog[i].line # resultLog[j].line
  /\ ResultLines \subseteq AllSentLines
  /\ ResultLines \cap MalformedLines = {}
  /\ \A w \in DOMAIN wpc :
       wpc[w] \in {"recv", "done"} => SentLines(w) \subseteq ResultLines
  /\ resultClosed = 1 => ResultLines = AllSentLines
  /\ execCount + sqlFailure + (IF aggPc = "sendErr" THEN 1 ELSE 0) = Len(resultLog)

C6_Witness ==
  /\ resultClosed = 1
  /\ aggPc = "done"
  /\ Len(resultLog) = 2
  /\ Cardinality(MalformedLines) = 1

\* C7: every task sent is received by the one worker owning the queue and
\* execute is invoked on it exactly once; when every queue is closed and the
\* result channel is drained, execute invocations = tasks sent.
C7_ExecutedExactlyOnce ==
  /\ \A w \in DOMAIN wpc :
       TasksOf(executed[w]) =
         IF wpc[w] = "work" THEN SubSeq(queueLog[w], 1, Len(queueLog[w]) - 1) ELSE queueLog[w]
  /\ \A w1 \in DOMAIN queueLog, w2 \in DOMAIN queueLog :
       w1 # w2 => SentLines(w1) \cap SentLines(w2) = {}
  /\ ((\A w \in DOMAIN chClosed : chClosed[w] = 1) /\ resultClosed = 1) =>
       ExecuteCalls = TasksSent

C7_Witness ==
  /\ workerCount = 2
  /\ mainPc # "start"
  /\ \A w \in DOMAIN chClosed : chClosed[w] = 1
  /\ resultClosed = 1
  /\ Len(executed[0]) = 2
  /\ Len(executed[1]) = 1

\* C8: an execute call that returns an error stops neither the worker nor the
\* run: the worker publishes a Result carrying the error, goes on to execute
\* every later task of its queue, and result is closed normally.
C8_ErrorDoesNotStopWorker ==
  workerCount >= 1 =>
    /\ panicMsg = ""
    /\ \A w \in DOMAIN wpc :
         /\ wpc[w] = "done" => chClosed[w] = 1
         /\ \A i \in DOMAIN executed[w] :
              (executed[w][i].err # NoErr /\ (i < Len(executed[w]) \/ wpc[w] \in {"recv", "done"}))
                => \E j \in DOMAIN resultLog :
                     /\ resultLog[j].line = executed[w][i].line
                     /\ resultLog[j].Error = executed[w][i].err
    /\ closerPc = "done" =>
         /\ resultClosed = 1
         /\ \A w \in DOMAIN wpc : Len(executed[w]) = Len(queueLog[w])

C8_Witness ==
  /\ closerPc = "done"
  /\ \E w \in DOMAIN wpc :
       /\ Len(executed[w]) = 3
       /\ executed[w][1].err # NoErr
       /\ executed[w][2].err = NoErr
       /\ executed[w][3].err # NoErr

\* C9: when Stats is emitted, the number of errors CollectResult sent on
\* errCh = Stats.FailedCount = the number of error-carrying Results received,
\* one message per such Result.
C9_ErrorsReportedAndCounted ==
  \A s \in DOMAIN statLog :
    /\ SqlErrsSent = statLog[s].FailedCount
    /\ statLog[s].FailedCount = ErrResults
    /\ \A j \in DOMAIN resultLog :
         resultLog[j].Error # NoErr =>
           Cardinality({ i \in DOMAIN errLog :
                           errLog[i].src = "sql" /\ errLog[i].line = resultLog[j].line }) = 1

C9_Witness ==
  /\ Len(statLog) = 1
  /\ statLog[1].FailedCount = 2
  /\ statLog[1].ExecCount = 1

\* C10: each malformed record is counted as one parse failure, reported once
\* on errCh by ProcessCsv, never sent to a worker queue; the count ProcessCsv
\* returns is the number of malformed records.
C10_ParseFailures ==
  /\ \A k \in DOMAIN records :
       Cardinality({ i \in DOMAIN errLog : errLog[i].src = "parse" /\ errLog[i].line = k })
         = IF k \in MalformedLines /\ ~(mainPc = "sendErr" /\ cur.line = k) THEN 1 ELSE 0
  /\ parseFailure = ParseErrsSent
  /\ AllSentLines \cap MalformedLines = {}
  /\ mainPc = "sendTask" => cur.line \notin MalformedLines
  /\ ProcessCsvReturned => parseFailure = Cardinality(MalformedLines)

C10_Witness ==
  /\ ProcessCsvReturned
  /\ parseFailure = 2
  /\ TasksSent = 1

\* C11: CollectResult sends exactly one Stats value per run, only after
\* result is closed and every Result sent on it has been received, and then
\* terminates.
C11_OneStatsAfterDrain ==
  /\ Len(statLog) <= 1
  /\ aggPc = "done" <=> Len(statLog) = 1
  /\ aggPc \in {"sendStat", "done"} =>
       /\ resultClosed = 1
       /\ \A w \in DOMAIN wpc : wpc[w] = "done" /\ wres[w] = NoResult
       /\ ResultLines = AllSentLines
       /\ execCount + sqlFailure = Len(resultLog)
  /\ mainPc \in {"closeErr", "print", "done"} => Len(statLog) = 1

C11_Witness ==
  /\ aggPc = "done"
  /\ Len(statLog) = 1
  /\ Len(resultLog) = 3
  /\ mainPc = "done"

\* the results received so far, as (duration, failed) pairs in arrival order
Received == [i \in DOMAIN resultLog |-> <<resultLog[i].Duration, resultLog[i].Error # NoErr>>]

\* C12: the results {10,ok},{20,ok},{30,ok},{0,err},{0,err} followed by the
\* close of the stream yield Stats{ExecCount:3, FailedCount:2, Sum:60, Min:10,
\* Max:30, Mean:20, Median:20, Percentile95th:29, Percentile99th:29.8}.
C12_TestCollectResult ==
  (/\ Received = << <<10, FALSE>>, <<20, FALSE>>, <<30, FALSE>>, <<0, TRUE>>, <<0, TRUE>> >>
   /\ resultClosed = 1
   /\ aggPc = "done")
    => statLog =
         << [ExecCount |-> 3,
             FailedCount |-> 2,
             Sum |-> [kind |-> "fin", num |-> 60, den |-> 1],
             Min |-> [kind |-> "fin", num |-> 10, den |-> 1],
             Max |-> [kind |-> "fin", num |-> 30, den |-> 1],
             Mean |-> [kind |-> "fin", num |-> 20, den |-> 1],
             Median |-> [kind |-> "fin", num |-> 20, den |-> 1],
             Percentile95th |-> [kind |-> "fin", num |-> 29, den |-> 1],
             Percentile99th |-> [kind |-> "fin", num |-> 149, den |-> 5]] >>

C12_Witness ==
  /\ Received = << <<10, FALSE>>, <<20, FALSE>>, <<30, FALSE>>, <<0, TRUE>>, <<0, TRUE>> >>
  /\ resultClosed = 1
  /\ aggPc = "done"
  /\ Len(errLog) = 2
  /\ mainPc = "done"

\* a call of percentile has returned or panicked
PercentileCalled == Len(pctRes) >= 1 \/ panicMsg # ""

Ascending(data) == \A i \in DOMAIN data, j \in DOMAIN data : i < j => data[i] <= data[j]

\* C13: percentile returns NaN for every p < 0, every p > 100 and every
\* sample array with fewer than 2 elements, whatever the other argument is.
C13_NaNOutsideDomain ==
  (pctP < 0 \/ pctP > 100 \/ Len(pctData) < 2) =>
    /\ panicMsg = ""
    /\ \A i \in DOMAIN pctRes : pctRes[i].kind = "NaN"

C13_Witness ==
  /\ Len(pctRes) = 2
  /\ pctP = 50
  /\ Len(pctData) = 1
  /\ pctRes[1].kind = "NaN"

\* rank = (p/100)*(n-1) + 1, i = floor(rank), f = rank - i, and the value
\* samples[i-1] + f*(samples[i] - samples[i-1]) in 0-indexed access, which
\* is the i-th sample when f = 0
Interpolated(data, p) ==
  LET n == Len(data)
      i == (p * (n - 1) + 100) \div 100
      f100 == (p * (n - 1) + 100) % 100
  IN IF f100 = 0
     THEN [kind |-> "fin", num |-> data[i], den |-> 1]
     ELSE Frac(100 * data[i] + f100 * (data[i + 1] - data[i]), 100)

\* C14: for every ascending array of n >= 2 samples and every p in [0,100],
\* percentile returns samples[i-1] + f*(samples[i] - samples[i-1]); on
\* [10,20,30] it returns 20 for p=50, 29 for p=95 and 29.8 for p=99.
C14_InterpolationFormula ==
  (Ascending(pctData) /\ Len(pctData) >= 2 /\ pctP >= 0 /\ pctP <= 100 /\ PercentileCalled) =>
    /\ panicMsg = ""
    /\ \A i \in DOMAIN pctRes :
         /\ pctRes[i] = Interpolated(pctData, pctP)
         /\ (pctData = <<10, 20, 30>> /\ pctP = 50) => pctRes[i] = [kind |-> "fin", num |-> 20, den |-> 1]
         /\ (pctData = <<10, 20, 30>> /\ pctP = 95) => pctRes[i] = [kind |-> "fin", num |-> 29, den |-> 1]
         /\ (pctData = <<10, 20, 30>> /\ pctP = 99) => pctRes[i] = [kind |-> "fin", num |-> 149, den |-> 5]

\* C15: every emitted Stats with ExecCount >= 2 has
\* Min <= Median <= Percentile95th <= Percentile99th <= Max.
C15_PercentilesOrdered ==
  \A i \in DOMAIN statLog :
    statLog[i].ExecCount >= 2 =>
      /\ FloatLeq(statLog[i].Min, statLog[i].Median)
      /\ FloatLeq(statLog[i].Median, statLog[i].Percentile95th)
      /\ FloatLeq(statLog[i].Percentile95th, statLog[i].Percentile99th)
      /\ FloatLeq(statLog[i].Percentile99th, statLog[i].Max)

C15_Witness ==
  /\ Received = << <<30, FALSE>>, <<10, FALSE>>, <<20, FALSE>> >>
  /\ Len(statLog) = 1
  /\ statLog[1].ExecCount = 3
  /\ statLog[1].Median = Fin(20)

\* no Result without an error has been received
NoSuccess == \A i \in DOMAIN resultLog : resultLog[i].Error # NoErr

\* C16: when no Result without an error is received (zero tasks included),
\* the Stats emitted has ExecCount 0, Sum 0, Min +Inf, Max -Inf, Mean NaN and
\* NaN percentiles, and the run goes on to print it: no fatal exit, no panic.
C16_EmptyRunStats ==
  (Len(statLog) >= 1 /\ NoSuccess) =>
    /\ statLog = << [ExecCount |-> 0,
                     FailedCount |-> Len(resultLog),
                     Sum |-> [kind |-> "fin", num |-> 0, den |-> 1],
                     Min |-> [kind |-> "+Inf", num |-> 0, den |-> 1],
                     Max |-> [kind |-> "-Inf", num |-> 0, den |-> 1],
                     Mean |-> [kind |-> "NaN", num |-> 0, den |-> 1],
                     Median |-> [kind |-> "NaN", num |-> 0, den |-> 1],
                     Percentile95th |-> [kind |-> "NaN", num |-> 0, den |-> 1],
                     Percentile99th |-> [kind |-> "NaN", num |-> 0, den |-> 1]] >>
    /\ mainPc \in {"closeErr", "print", "done"}
    /\ panicMsg = ""
    /\ mainPc = "done" => output # NoOutput

C16_Witness ==
  /\ workerCount >= 1
  /\ mainPc = "done"
  /\ TasksSent = 0
  /\ Len(statLog) = 1
  /\ statLog[1].ExecCount = 0
  /\ statLog[1].Mean.kind = "NaN"

\* the multiset of Results received: how many times each (duration, failed)
\* pair occurs, and the successful durations that occur
CountOf(x) == Cardinality({ i \in DOMAIN Received : Received[i] = x })
OkDurations == { Received[i][1] : i \in { j \in DOMAIN Received : ~Received[j][2] } }
FailedInBag == Cardinality({ i \in DOMAIN Received : Received[i][2] })

Least(S) == CHOOSE m \in S : \A x \in S : m <= x
Greatest(S) == CHOOSE m \in S : \A x \in S : x <= m

RECURSIVE Repeat(_, _)
Repeat(x, k) == IF k = 0 THEN << >> ELSE <<x>> \o Repeat(x, k - 1)

\* the successful durations of the multiset in ascending order
RECURSIVE BagAscending(_)
BagAscending(S) ==
  IF S = {} THEN << >>
  ELSE Repeat(Least(S), CountOf(<<Least(S), FALSE>>)) \o BagAscending(S \ {Least(S)})

RECURSIVE BagSum(_)
BagSum(S) ==
  IF S = {} THEN 0
  ELSE LET d == CHOOSE x \in S : TRUE
       IN d * CountOf(<<d, FALSE>>) + BagSum(S \ {d})

\* the Stats determined by the multiset alone
StatsOfBag ==
  LET asc == BagAscending(OkDurations)
      n == Len(asc)
  IN [ExecCount |-> n,
      FailedCount |-> FailedInBag,
      Sum |-> Fin(BagSum(OkDurations)),
      Min |-> IF n = 0 THEN PosInf ELSE Fin(Least(OkDurations)),
      Max |-> IF n = 0 THEN NegInf ELSE Fin(Greatest(OkDurations)),
      Mean |-> IF n = 0 THEN NaN ELSE Frac(BagSum(OkDurations), n),
      Median |-> percentile(asc, 50),
      Percentile95th |-> percentile(asc, 95),
      Percentile99th |-> percentile(asc, 99)]

\* C17: the emitted Stats is a function of the multiset of Results received:
\* whatever the order they arrived in, it is the Stats of that multiset.
C17_OrderIndependent ==
  \A i \in DOMAIN statLog : statLog[i] = StatsOfBag

C17_Witness ==
  /\ Received = << <<30, FALSE>>, <<0, TRUE>>, <<10, FALSE>>, <<20, FALSE>> >>
  /\ Len(statLog) = 1
  /\ statLog[1].Min = Fin(10)
  /\ statLog[1].Percentile95th = Fin(29)

\* C18: with zero workers the run ends in a fatal error at StartWorkers:
\* main never gets past setup, ProcessCsv reads no record, no task is
\* dispatched and no Stats value is produced.
C18_ZeroWorkersFatalAtSetup ==
  workerCount = 0 =>
    /\ mainPc \in {"start", "fatal"}
    /\ records = << >>
    /\ TasksSent = 0
    /\ statLog = << >>
    /\ output = NoOutput
    /\ panicMsg = ""

\* the consequences of a rejected first line: no record is read, the
\* callback never runs, no task is dispatched, nothing is sent on the error
\* channel, and ProcessCsv returns the error to main
NothingParsed ==
  /\ records = << >>
  /\ cur = NoCur
  /\ TasksSent = 0
  /\ parseFailure = 0
  /\ errLog = << >>
  /\ mainPc \in {"start", "header", "fatal"}
  /\ mainPc = "fatal" => retErr = (IF header = << >> THEN ErrReadHeader ELSE ErrInvalidHeader)

\* a first line that validateHeader rejects, or no first line, has these
\* consequences
RejectedHeaderStopsParse == ~HeaderValid => NothingParsed

\* C19: when the first line is missing or is not exactly the three-field
\* header hostname,start_time,end_time, ParseCsv returns an error
\* (ErrInvalidHeader for a wrong header) and never invokes the callback, so
\* ProcessCsv dispatches nothing, sends nothing on the error channel and
\* returns that error.
C19_NonHeaderRejected ==
  header # <<"hostname", "start_time", "end_time">> => NothingParsed

C21_QueuesClosedAfterDispatch ==
  /\ [](\A w \in DOMAIN chClosed :
          /\ chClosed[w] <= 1
          /\ chClosed[w] = 1 => (ProcessCsvReturned /\ cur = NoCur)
          /\ mainPc \in {"closeErr", "print", "done"} => chClosed[w] = 1
          /\ wpc[w] = "done" =>
               /\ chClosed[w] = 1
               /\ Len(executed[w]) = Len(queueLog[w])
               /\ wres[w] = NoResult)
  /\ [](panicMsg \notin {"send on closed channel", "close of closed channel"})
  /\ [][\A w \in DOMAIN chClosed :
          (chClosed[w] > 0 /\ w \in DOMAIN queueLog') => queueLog'[w] = queueLog[w]]_vars

C21_Witness ==
  /\ mainPc = "done"
  /\ workerCount = 2
  /\ \A w \in Workers : chClosed[w] = 1 /\ wpc[w] = "done" /\ Len(queueLog[w]) >= 1

\* the host-to-worker map only grows and is written by the dispatcher only
MapOnlyGrows ==
  /\ [][\A h \in DOMAIN hostWorkerMap :
          h \in DOMAIN hostWorkerMap' /\ hostWorkerMap'[h] = hostWorkerMap[h]]_vars
  /\ [][hostWorkerMap' # hostWorkerMap => (mainPc = "read" /\ Len(records') = Len(records) + 1)]_vars

OkIdx == { i \in DOMAIN resultLog : resultLog[i].Error = NoErr }
OkDurationAt(i) == resultLog[i].Duration

RECURSIVE SumAt(_)
SumAt(I) ==
  IF I = {} THEN 0
  ELSE LET i == CHOOSE x \in I : TRUE IN OkDurationAt(i) + SumAt(I \ {i})

\* seq holds exactly the error-free durations: each value as often as it
\* was received without an error
HoldsOkDurations(seq) ==
  /\ Len(seq) = Cardinality(OkIdx)
  /\ \A d \in { OkDurationAt(i) : i \in OkIdx } :
       Cardinality({ k \in DOMAIN seq : seq[k] = d })
         = Cardinality({ i \in OkIdx : OkDurationAt(i) = d })

\* C23: Results with an error count in FailedCount only; Sum, Min and Max
\* are the sum, minimum and maximum of the error-free durations,
\* Mean = Sum / ExecCount when ExecCount >= 1, and the percentiles are taken
\* over exactly the error-free durations in ascending order.
C23_ErrorsOnlyInFailedCount ==
  \A i \in DOMAIN statLog :
    LET st == statLog[i] IN
      /\ st.ExecCount = Cardinality(OkIdx)
      /\ st.FailedCount = Len(resultLog) - Cardinality(OkIdx)
      /\ st.Sum = Fin(SumAt(OkIdx))
      /\ OkIdx # {} =>
           /\ \E j \in OkIdx : st.Min = Fin(OkDurationAt(j))
           /\ \A j \in OkIdx : FloatLeq(st.Min, Fin(OkDurationAt(j)))
           /\ \E j \in OkIdx : st.Max = Fin(OkDurationAt(j))
           /\ \A j \in OkIdx : FloatLeq(Fin(OkDurationAt(j)), st.Max)
      /\ st.ExecCount >= 1 =>
           /\ st.Mean.kind = "fin"
           /\ st.Mean.num * st.ExecCount * st.Sum.den = st.Sum.num * st.Mean.den
      /\ HoldsOkDurations(durations)
      /\ Ascending(durations)
      /\ st.Median = percentile(durations, 50)
      /\ st.Percentile95th = percentile(durations, 95)
      /\ st.Percentile99th = percentile(durations, 99)

C23_Witness ==
  /\ Received = << <<30, FALSE>>, <<0, TRUE>>, <<10, FALSE>>, <<0, TRUE>> >>
  /\ Len(statLog) = 1
  /\ statLog[1].FailedCount = 2
  /\ statLog[1].Min = Fin(10)
  /\ statLog[1].Mean = Fin(20)
  /\ durations = <<10, 30>>

\* C24: every QueryResult a worker has published or is publishing carries
\* the host of its task (the host of that record) and the error, or nil,
\* that work() returned for that very task.
C24_ResultCarriesOwnHostAndError ==
  /\ \A i \in DOMAIN resultLog :
       /\ resultLog[i].Host = records[resultLog[i].line][1]
       /\ \E w \in DOMAIN executed : \E k \in DOMAIN executed[w] :
            /\ executed[w][k].line = resultLog[i].line
            /\ executed[w][k].Host = resultLog[i].Host
            /\ executed[w][k].err = resultLog[i].Error
  /\ \A w \in DOMAIN wpc :
       wpc[w] = "send" =>
         LET call == executed[w][Len(executed[w])] IN
           /\ wres[w].line = call.line
           /\ wres[w].Host = call.Host
           /\ wres[w].Error = call.err
           /\ wres[w].Host = wq[w].Host

C24_Witness ==
  /\ \E i \in DOMAIN resultLog, j \in DOMAIN resultLog :
       /\ resultLog[i].Host = 1 /\ resultLog[i].Error = ErrQuery
       /\ resultLog[j].Host = 2 /\ resultLog[j].Error = NoErr
  /\ mainPc = "done"

\* C25: when main has printed, every data record read is counted once:
\* malformed records in parse_failure, well-formed ones in exec_count or
\* sql_failure, and total_count = ExecCount + FailedCount + parseFailure is
\* the number of data records read.
C25_EveryRecordCountedOnce ==
  output.printed =>
    /\ output.total = Len(records)
    /\ output.total = output.exec + output.sqlFailure + output.parseFailure
    /\ output.parseFailure = Cardinality(MalformedLines)
    /\ output.exec + output.sqlFailure = Cardinality(WellFormedLines)
    /\ output.exec = Cardinality({ i \in DOMAIN resultLog : resultLog[i].Error = NoErr })
    /\ output.sqlFailure = Cardinality({ i \in DOMAIN resultLog : resultLog[i].Error # NoErr })
    /\ \A k \in WellFormedLines :
         Cardinality({ i \in DOMAIN resultLog : resultLog[i].line = k }) = 1

C25_Witness ==
  /\ mainPc = "done"
  /\ output.printed
  /\ output.exec = 1
  /\ output.sqlFailure = 1
  /\ output.parseFailure = 1
  /\ output.total = 3

\* C26: errCh is closed at most once, and only after ProcessCsv has returned
\* and CollectResult has sent its Stats; nothing is sent on errCh once it is
\* closed, and at the close the logger has received one error for every
\* parse failure and every failed QueryResult.
C26_ErrChClosedAfterSenders ==
  /\ [](errClosed <= 1)
  /\ [](errClosed = 1 =>
          /\ mainPc \in {"print", "done"}
          /\ cur = NoCur
          /\ aggPc = "done" /\ aggR = NoResult
          /\ Len(statLog) = 1
          /\ ParseErrsSent = Cardinality(MalformedLines)
          /\ SqlErrsSent = ErrResults
          /\ Len(errLog) = parseFailure + sqlFailure)
  /\ [](panicMsg # "send on closed channel")
  /\ [][errClosed > 0 => errLog' = errLog]_vars

C26_Witness ==
  /\ errClosed = 1
  /\ mainPc = "done"
  /\ ParseErrsSent >= 1
  /\ SqlErrsSent >= 1

\* C27: for every ascending slice of n >= 2 samples and every p with
\* 0 <= p <= 100, percentile reads no index outside [0, n-1], returns a
\* value between samples[0] and samples[n-1], samples[0] for p = 0 and
\* samples[n-1] for p = 100.
C27_PercentileWithinSamples ==
  (Ascending(pctData) /\ Len(pctData) >= 2 /\ pctP >= 0 /\ pctP <= 100 /\ PercentileCalled) =>
    /\ panicMsg # "index out of range"
    /\ \A i \in DOMAIN pctRes :
         /\ FloatLeq(Fin(pctData[1]), pctRes[i])
         /\ FloatLeq(pctRes[i], Fin(pctData[Len(pctData)]))
         /\ pctP = 0 => pctRes[i] = Fin(pctData[1])
         /\ pctP = 100 => pctRes[i] = Fin(pctData[Len(pctData)])

\* the same for p below 100 only
PercentileWithinSamplesBelow100 == pctP # 100 => C27_PercentileWithinSamples

\* the tasks of worker w that are handed over and whose QueryResult the
\* aggregator has not received
InFlight(w) ==
  Len(queueLog[w]) - Cardinality({ i \in DOMAIN resultLog : resultLog[i].line \in SentLines(w) })

\* C28: the tasks handed to workers whose QueryResult CollectResult has not
\* yet received number at most N, at most one per worker.
C28_AtMostOneInFlightPerWorker ==
  /\ TasksSent - Len(resultLog) <= workerCount
  /\ TasksSent - Len(resultLog) >= 0
  /\ \A w \in DOMAIN queueLog :
       /\ InFlight(w) \in {0, 1}
       /\ InFlight(w) = 1 <=> wpc[w] \in {"work", "send"}

C28_Witness ==
  /\ workerCount = 2
  /\ TasksSent - Len(resultLog) = 2
  /\ mainPc = "sendTask"
  /\ Len(records) = 3

\* worker w holds a task: work(q) is running or its QueryResult is not yet
\* handed to the aggregator
Busy(w) == wpc[w] \in {"work", "send"}

\* C29: a worker runs at most one work() call at a time, no two workers hold
\* tasks of the same host, and when a worker holds a task every earlier task
\* of that host has its QueryResult already received by the aggregator.
C29_SameHostNeverConcurrent ==
  /\ Cardinality({ w \in DOMAIN wpc : wpc[w] = "work" }) <= workerCount
  /\ \A w \in DOMAIN wpc :
       /\ Len(queueLog[w]) - Len(executed[w]) = (IF wpc[w] = "work" THEN 1 ELSE 0)
       /\ Busy(w) =>
            \A k \in WellFormedLines :
              (k < wq[w].line /\ records[k][1] = wq[w].Host) => k \in ResultLines
  /\ \A w1 \in DOMAIN wpc, w2 \in DOMAIN wpc :
       (w1 # w2 /\ Busy(w1) /\ Busy(w2)) => wq[w1].Host # wq[w2].Host

C29_Witness ==
  /\ workerCount = 2
  /\ DOMAIN wpc = {0, 1}
  /\ Len(records) = 3
  /\ wpc[0] = "work" /\ wpc[1] = "work"
  /\ wq[0].line = 3 /\ wq[1].line = 2
  /\ records[1][1] = wq[0].Host
  /\ 1 \in ResultLines

\* the send of record k is pending in the callback of ProcessCsv
PendingTask(k) == mainPc = "sendTask" /\ cur.line = k
PendingErr(k) == mainPc = "sendErr" /\ cur.line = k

\* worker w has received the task of line k: it has run work() for it or
\* holds it as the q of its current iteration
ReceivedBy(w, k) ==
  \/ \E i \in DOMAIN executed[w] : executed[w][i].line = k
  \/ wpc[w] = "work" /\ wq[w].line = k

\* C30: ProcessCsv dispatches in input order, one record at a time: while
\* the process has not crashed, every record read before the newest one is
\* sent (and received by its worker) or reported, the newest one is sent,
\* reported or pending; a record is read only when no send is pending; and
\* while the send of a task is pending on a busy worker the dispatcher can
\* take no step, whatever the other workers do.
C30_DispatchOneAtATime ==
  /\ [](panicMsg = "" =>
          /\ \A k \in WellFormedLines :
               \/ k \in AllSentLines
               \/ k = Len(records) /\ PendingTask(k)
          /\ \A k \in MalformedLines :
               \/ \E i \in DOMAIN errLog : errLog[i].src = "parse" /\ errLog[i].line = k
               \/ k = Len(records) /\ PendingErr(k))
  /\ [](\A w \in DOMAIN queueLog :
          /\ \A i \in DOMAIN queueLog[w] : ReceivedBy(w, queueLog[w][i].line)
          /\ \A i \in DOMAIN queueLog[w], j \in DOMAIN queueLog[w] :
               i < j => queueLog[w][i].line < queueLog[w][j].line)
  /\ []((mainPc = "sendTask" /\ Busy(cur.w)) => ~ENABLED MainStep)
  /\ [][Len(records') > Len(records) =>
          (mainPc = "read" /\ cur = NoCur /\ Len(records') = Len(records) + 1)]_vars

C30_Witness ==
  /\ workerCount = 2
  /\ DOMAIN wpc = {0, 1}
  /\ mainPc = "sendTask"
  /\ cur.line = 2
  /\ cur.w = 0
  /\ Busy(0)
  /\ wpc[1] = "recv"
  /\ ~ENABLED MainStep

\* C31: when exactly one Result without an error, of duration d, has been
\* received (with any number of failed ones), the emitted Stats has
\* ExecCount 1, Sum = Min = Max = Mean = d and NaN for Median,
\* Percentile95th and Percentile99th.
C31_SingleSampleStats ==
  \A i \in DOMAIN statLog :
    \A k \in DOMAIN resultLog :
      (/\ resultLog[k].Error = NoErr
       /\ \A j \in DOMAIN resultLog : (j # k) => resultLog[j].Error # NoErr) =>
        /\ statLog[i].ExecCount = 1
        /\ statLog[i].FailedCount = Len(resultLog) - 1
        /\ statLog[i].Sum = [kind |-> "fin", num |-> resultLog[k].Duration, den |-> 1]
        /\ statLog[i].Min = statLog[i].Sum
        /\ statLog[i].Max = statLog[i].Sum
        /\ statLog[i].Mean = statLog[i].Sum
        /\ statLog[i].Median.kind = "NaN"
        /\ statLog[i].Percentile95th.kind = "NaN"
        /\ statLog[i].Percentile99th.kind = "NaN"

C31_Witness ==
  /\ Received = << <<0, TRUE>>, <<20, FALSE>>, <<0, TRUE>> >>
  /\ Len(statLog) = 1
  /\ statLog[1].ExecCount = 1
  /\ statLog[1].Mean = Fin(20)
  /\ statLog[1].Median.kind = "NaN"

\* main can still write parseFailure: it has not left its read loop
MainMayWriteParseFailure == mainPc \in {"start", "header", "read", "sendErr", "sendTask"}

\* C32: in the historical main the aggregating goroutine reads parseFailure
\* only after result is closed, which is after every worker has ended,
\* every worker channel is closed and main has left its read loop; the
\* counter does not change from then on, and the printed total_count uses
\* its final value, one per record main logged as a parse failure.
C32_ParseFailureReadAfterLastWrite ==
  /\ [](aggPc \in {"readPf", "done"} =>
          /\ ~MainMayWriteParseFailure
          /\ resultClosed = 1
          /\ closeIdx = workerCount
          /\ \A w \in DOMAIN wpc : chClosed[w] = 1 /\ wpc[w] = "done"
          /\ cur = NoCur
          /\ parseFailure = ParseErrsSent
          /\ parseFailure = Cardinality(MalformedLines))
  /\ [][(aggPc \in {"readPf", "done"}) => parseFailure' = parseFailure]_vars
  /\ [](output.printed =>
          /\ output.parseFailure = parseFailure
          /\ output.total = output.exec + output.sqlFailure + parseFailure
          /\ output.total = Len(records))

C32_Witness ==
  /\ mainPc = "done"
  /\ aggPc = "done"
  /\ output.printed
  /\ output.parseFailure = 2
  /\ output.exec = 1
  /\ output.total = 3

====
